---- MODULE Spec2Model ----
(***************************************************************************)
(* Model of fetch_news.py: the call-budget-governed retrieval loop of      *)
(* main(), the executor fetch_single_query() with its schema-downgrade     *)
(* re-issue, the failure classification is_transient_error(), the item     *)
(* normaliser with dedup_key(), and the report assembled at the end.       *)
(***************************************************************************)
EXTENDS Integers, Sequences, FiniteSets, TLC

\* ---------------------------------------------------------------------------
\* Program constants
\* ---------------------------------------------------------------------------
CALL_BUDGET == 20
CONSECUTIVE_FAIL_LIMIT == 5
DedupKeyLen == 180

\* ---------------------------------------------------------------------------
\* Bounds of the model (the environment: provider and query source)
\* ---------------------------------------------------------------------------
\* how many provider requests may be answered with an isolated error in one run
MaxFaults == 2
\* how many successful responses may deviate from the regular two-title shape
MaxOddResponses == 1
\* len(queries) is drawn from CALL_BUDGET - QueryCountSlack .. CALL_BUDGET + QueryCountSlack
QueryCountSlack == 1

\* ---------------------------------------------------------------------------
\* Strings are sequences of one-character strings
\* ---------------------------------------------------------------------------
Digits == <<"0", "1", "2", "3", "4", "5", "6", "7", "8", "9">>

IsDigit(c) == c \in {"0", "1", "2", "3", "4", "5", "6", "7", "8", "9"}

IsSpace(c) == c \in {" ", "\t"}

IsLowerLetter(c) == c \in {"f", "l", "u", "n", "w", "h", "o", "b", "g"}

\* str.lower() on one character
LowerChar(c) ==
    CASE c = "F" -> "f"
      [] c = "L" -> "l"
      [] c = "U" -> "u"
      [] c = "N" -> "n"
      [] c = "W" -> "w"
      [] c = "H" -> "h"
      [] c = "O" -> "o"
      [] c = "B" -> "b"
      [] OTHER -> c

\* ord() of the characters the model uses
Ord(c) ==
    CASE c = "\t" -> 9
      [] c = " " -> 32
      [] c = "!" -> 33
      [] c = "-" -> 45
      [] c = "0" -> 48
      [] c = "1" -> 49
      [] c = "2" -> 50
      [] c = "3" -> 51
      [] c = "4" -> 52
      [] c = "5" -> 53
      [] c = "6" -> 54
      [] c = "7" -> 55
      [] c = "8" -> 56
      [] c = "9" -> 57
      [] c = "B" -> 66
      [] c = "F" -> 70
      [] c = "H" -> 72
      [] c = "L" -> 76
      [] c = "N" -> 78
      [] c = "O" -> 79
      [] c = "U" -> 85
      [] c = "W" -> 87
      [] c = "b" -> 98
      [] c = "f" -> 102
      [] c = "g" -> 103
      [] c = "h" -> 104
      [] c = "l" -> 108
      [] c = "n" -> 110
      [] c = "o" -> 111
      [] c = "u" -> 117
      [] c = "w" -> 119
      [] OTHER -> 0

Lower(s) == [i \in 1..Len(s) |-> LowerChar(s[i])]

RECURSIVE LStrip(_)
LStrip(s) == IF s # <<>> /\ IsSpace(Head(s)) THEN LStrip(Tail(s)) ELSE s

RECURSIVE RStrip(_)
RStrip(s) ==
    IF s # <<>> /\ IsSpace(s[Len(s)]) THEN RStrip(SubSeq(s, 1, Len(s) - 1)) ELSE s

\* str.strip()
Strip(s) == RStrip(LStrip(s))

\* re.sub(r"\s+", " ", s)
RECURSIVE CollapseSpaces(_)
CollapseSpaces(s) ==
    IF s = <<>> THEN <<>>
    ELSE IF IsSpace(Head(s))
         THEN <<" ">> \o CollapseSpaces(LStrip(s))
         ELSE <<Head(s)>> \o CollapseSpaces(Tail(s))

\* re.sub(r"[^a-z0-9 ]+", "", s)
KeepKeyChars(s) == SelectSeq(s, LAMBDA c : IsLowerLetter(c) \/ IsDigit(c) \/ c = " ")

\* s[:n]
Truncate(s, n) == SubSeq(s, 1, IF Len(s) < n THEN Len(s) ELSE n)

dedup_key(title) == Truncate(KeepKeyChars(CollapseSpaces(Lower(Strip(title)))), DedupKeyLen)

\* a string as the sequence of its code points
Codes(s) == [i \in 1..Len(s) |-> Ord(s[i])]

\* a < b for two sequences of integers compared from position k on, the way
\* Python compares tuples and strings
RECURSIVE LexLess(_, _, _)
LexLess(a, b, k) ==
    IF k > Len(b) THEN FALSE
    ELSE IF k > Len(a) THEN TRUE
    ELSE IF a[k] # b[k] THEN a[k] < b[k]
    ELSE LexLess(a, b, k + 1)

\* ---------------------------------------------------------------------------
\* What the provider can answer
\* ---------------------------------------------------------------------------
\* the exceptions _make_request can raise, by class, HTTP status and whether
\* the error text says that the schema field is unsupported
ProviderErrors ==
    { [cls |-> "HTTPError", code |-> 429, schema_msg |-> FALSE],
      [cls |-> "HTTPError", code |-> 503, schema_msg |-> FALSE],
      [cls |-> "HTTPError", code |-> 503, schema_msg |-> TRUE],
      [cls |-> "HTTPError", code |-> 400, schema_msg |-> FALSE],
      [cls |-> "HTTPError", code |-> 400, schema_msg |-> TRUE],
      [cls |-> "HTTPError", code |-> 404, schema_msg |-> FALSE],
      [cls |-> "URLError", code |-> 0, schema_msg |-> FALSE],
      [cls |-> "TimeoutError", code |-> 0, schema_msg |-> FALSE],
      [cls |-> "RuntimeError", code |-> 0, schema_msg |-> FALSE],
      [cls |-> "JSONDecodeError", code |-> 0, schema_msg |-> FALSE] }

NoError == [cls |-> "None", code |-> 0, schema_msg |-> FALSE]

\* one element of the parsed JSON list: a dict or not, and its "title" value
\* (a string, null/absent, or a JSON number)
Item(isdict, ttype, title, source) ==
    [dict |-> isdict, ttype |-> ttype, title |-> title, source |-> source]

WHO == <<"W", "H", "O">>
Blog == <<"B", "l", "o", "g">>

\* the title the provider regularly returns as item j of query i: "Nii-j"
RegularTitle(i, j) ==
    <<"N", Digits[(i \div 10) + 1], Digits[(i % 10) + 1], "-", Digits[j + 1]>>

RegularResponse(i) ==
    << Item(TRUE, "str", RegularTitle(i, 1), IF i % 2 = 0 THEN WHO ELSE Blog),
       Item(TRUE, "str", RegularTitle(i, 2), Blog) >>

\* items that deviate: titles that collide after normalisation, blank and
\* punctuation-only titles, a null title, a non-dict element, a numeric title
Flu == Item(TRUE, "str", <<"F", "l", "u">>, Blog)
FluLoud == Item(TRUE, "str", <<" ", "F", "L", "U", "!">>, WHO)
LikeFirst == Item(TRUE, "str", <<"n", "0", "1", "1">>, Blog)
Blank == Item(TRUE, "str", <<" ", "\t">>, Blog)
Bang == Item(TRUE, "str", <<"!">>, Blog)
NullTitle == Item(TRUE, "null", <<>>, Blog)
NotADict == Item(FALSE, "null", <<>>, <<>>)
NumberTitle == Item(TRUE, "num", <<>>, Blog)

\* the deviating lists of two elements the provider can return for query i
OddResponses(i) ==
    { <<Flu, FluLoud>>,
      <<FluLoud, Flu>>,
      <<LikeFirst, RegularResponse(i)[1]>>,
      <<Blank, Bang>>,
      <<NotADict, NullTitle>>,
      <<Bang, NumberTitle>> }

\* ---------------------------------------------------------------------------
\* Failure classification
\* ---------------------------------------------------------------------------
is_transient_error(e) ==
    IF e.cls = "HTTPError" THEN e.code = 429 \/ (500 =< e.code /\ e.code =< 599)
    ELSE IF e.cls = "URLError" THEN TRUE
    ELSE IF e.cls = "TimeoutError" THEN TRUE
    ELSE FALSE

\* the test of fetch_single_query's except clause
SchemaUnsupported(e) == e.cls = "HTTPError" /\ e.code = 400 /\ e.schema_msg

\* ---------------------------------------------------------------------------
\* fetch_single_query
\* ---------------------------------------------------------------------------
\* The provider of a run is [faults, odd, outage]: the isolated errors and the
\* deviating responses it may still produce, and whether it is in an outage
\* ("on": every request fails from now on; "armed": an outage can begin at any
\* request; "off": none in this run).
\* The answers _make_request can get for query i from provider p, each with
\* the provider afterwards.
Answers(i, p) ==
    (IF p.outage # "on"
     THEN { [ok |-> TRUE, items |-> RegularResponse(i), error |-> NoError, provider |-> p] }
     ELSE {})
    \cup (IF p.outage # "on" /\ p.odd > 0
          THEN { [ok |-> TRUE, items |-> r, error |-> NoError,
                  provider |-> [p EXCEPT !.odd = @ - 1]] : r \in OddResponses(i) }
          ELSE {})
    \cup (IF p.outage # "on" /\ p.faults > 0
          THEN { [ok |-> FALSE, items |-> <<>>, error |-> e,
                  provider |-> [p EXCEPT !.faults = @ - 1]] : e \in ProviderErrors }
          ELSE {})
    \cup (IF p.outage # "off"
          THEN { [ok |-> FALSE, items |-> <<>>, error |-> e,
                  provider |-> [p EXCEPT !.outage = "on"]] : e \in ProviderErrors }
          ELSE {})

\* fetch_single_query without line 315: the re-issue leaves the flag alone
fetch_single_query_flag_unset(i, disabled, p) ==
    LET first == Answers(i, p)
        Direct(a) ==
            [ok |-> a.ok, items |-> a.items, error |-> a.error,
             sent |-> << ~disabled >>, disabled |-> disabled,
             provider |-> a.provider]
        Reissued(b) ==
            [ok |-> b.ok, items |-> b.items, error |-> b.error,
             sent |-> << ~disabled, FALSE >>, disabled |-> disabled,
             provider |-> b.provider]
    IN  { Direct(a) : a \in { x \in first : x.ok \/ ~SchemaUnsupported(x.error) } }
        \cup UNION { { Reissued(b) : b \in Answers(i, a.provider) } :
                       a \in { x \in first : ~x.ok /\ SchemaUnsupported(x.error) } }

\* fetch_single_query with line 293 as include_structured=True, whatever the flag
fetch_single_query_schema_always(i, disabled, p) ==
    LET first == Answers(i, p)
        Direct(a) ==
            [ok |-> a.ok, items |-> a.items, error |-> a.error,
             sent |-> << TRUE >>, disabled |-> disabled,
             provider |-> a.provider]
        Reissued(b) ==
            [ok |-> b.ok, items |-> b.items, error |-> b.error,
             sent |-> << TRUE, FALSE >>, disabled |-> TRUE,
             provider |-> b.provider]
    IN  { Direct(a) : a \in { x \in first : x.ok \/ ~SchemaUnsupported(x.error) } }
        \cup UNION { { Reissued(b) : b \in Answers(i, a.provider) } :
                       a \in { x \in first : ~x.ok /\ SchemaUnsupported(x.error) } }

\* The outcomes of one call fetch_single_query(api_key, query_text) for query i
\* with the run-level flag `disabled`: the list returned or the exception that
\* escapes, the requests sent (each with its include_structured), the flag
\* afterwards, and the provider afterwards.
fetch_single_query(i, disabled, p) ==
    LET first == Answers(i, p)
        Direct(a) ==
            [ok |-> a.ok, items |-> a.items, error |-> a.error,
             sent |-> << ~disabled >>, disabled |-> disabled,
             provider |-> a.provider]
        Reissued(b) ==
            [ok |-> b.ok, items |-> b.items, error |-> b.error,
             sent |-> << ~disabled, FALSE >>, disabled |-> TRUE,
             provider |-> b.provider]
    IN  { Direct(a) : a \in { x \in first : x.ok \/ ~SchemaUnsupported(x.error) } }
        \cup UNION { { Reissued(b) : b \in Answers(i, a.provider) } :
                       a \in { x \in first : ~x.ok /\ SchemaUnsupported(x.error) } }

\* ---------------------------------------------------------------------------
\* State of one run of main()
\* ---------------------------------------------------------------------------
VARIABLES
    pc,                         \* where main() is
    api_key,                    \* is ANTHROPIC_API_KEY set
    nqueries,                   \* len(queries)
    qi,                         \* index of the query `q` of the for loop (0: none yet)
    results,                    \* [none |-> TRUE] for None, else the list returned
    attempts_for_this_query,
    last_error,                 \* "None", or "Exception" for the exception caught
    all_items,
    errors,
    calls_used,
    calls_attempted,
    consecutive_failures,
    seen_keys,
    STRUCTURED_OUTPUT_DISABLED,
    data_json,                  \* the reports written to data.json, in order
    requests_sent,              \* number of HTTP requests issued so far
    last_sent,                  \* include_structured of the requests of the latest call
    paced,                      \* did the latest attempt sleep SLEEP_BETWEEN_CALLS_SECONDS first
    pacing_sleeps,              \* number of time.sleep(SLEEP_BETWEEN_CALLS_SECONDS) so far
    backoff_pending,            \* RETRY_BACKOFF_SECONDS was slept and no attempt made since
    encountered,                \* every titled item met by the normaliser, in order
    attempt_log,                \* every attempt made: its query and how it ended
    provider                    \* what the provider can still do in this run

vars ==
    << pc, api_key, nqueries, qi, results, attempts_for_this_query, last_error,
       all_items, errors, calls_used, calls_attempted, consecutive_failures,
       seen_keys, STRUCTURED_OUTPUT_DISABLED, data_json, requests_sent, last_sent,
       paced, pacing_sleeps, backoff_pending, encountered, attempt_log, provider >>

None == [none |-> TRUE, items |-> <<>>]

\* the providers a run can face: isolated errors with regular items, deviating
\* responses without errors, or an outage that begins at some request
Providers ==
    { [faults |-> MaxFaults, odd |-> 0, outage |-> "off"],
      [faults |-> 0, odd |-> MaxOddResponses, outage |-> "off"],
      [faults |-> 0, odd |-> 0, outage |-> "armed"] }

Init ==
    /\ pc = "start"
    /\ api_key \in BOOLEAN
    /\ nqueries \in (CALL_BUDGET - QueryCountSlack)..(CALL_BUDGET + QueryCountSlack)
    /\ qi = 0
    /\ results = None
    /\ attempts_for_this_query = 0
    /\ last_error = "None"
    /\ all_items = <<>>
    /\ errors = <<>>
    /\ calls_used = 0
    /\ calls_attempted = 0
    /\ consecutive_failures = 0
    /\ seen_keys = {}
    /\ STRUCTURED_OUTPUT_DISABLED = FALSE
    /\ data_json = <<>>
    /\ requests_sent = 0
    /\ last_sent = <<>>
    /\ paced = FALSE
    /\ pacing_sleeps = 0
    /\ backoff_pending = FALSE
    /\ encountered = <<>>
    /\ attempt_log = <<>>
    /\ provider \in Providers

loop_vars ==
    << qi, results, attempts_for_this_query, last_error, all_items, errors,
       calls_used, calls_attempted, consecutive_failures, seen_keys,
       STRUCTURED_OUTPUT_DISABLED, requests_sent, last_sent, paced, pacing_sleeps,
       backoff_pending, encountered, attempt_log, provider >>

\* ---------------------------------------------------------------------------
\* Pre-flight
\* ---------------------------------------------------------------------------
\* if not api_key: sys.exit(1)
MissingKeyExit ==
    /\ pc = "start"
    /\ ~api_key
    /\ pc' = "exit1"
    /\ UNCHANGED << api_key, nqueries, data_json, loop_vars >>

\* the guardrail as an upper limit only
QueryCountAtMost(n) == n =< CALL_BUDGET

QueryCountOk(n) == n = CALL_BUDGET

\* assert len(queries) == CALL_BUDGET fails
QueryCountAbort ==
    /\ pc = "start"
    /\ api_key
    /\ ~QueryCountOk(nqueries)
    /\ pc' = "assertion_error"
    /\ UNCHANGED << api_key, nqueries, data_json, loop_vars >>

PreflightPass ==
    /\ pc = "start"
    /\ api_key
    /\ QueryCountOk(nqueries)
    /\ pc' = "for"
    /\ UNCHANGED << api_key, nqueries, data_json, loop_vars >>

\* ---------------------------------------------------------------------------
\* The retrieval loop
\* ---------------------------------------------------------------------------
\* the breaker check at the top of the for body left out
HaltBeforeQueryNever(cf) == FALSE

\* consecutive_failures >= CONSECUTIVE_FAIL_LIMIT, at the top of the for body
HaltBeforeQuery(cf) == cf >= CONSECUTIVE_FAIL_LIMIT

\* the breaker check in the while body off by one: > instead of >=
BreakerTrippedLate(cf) == cf > CONSECUTIVE_FAIL_LIMIT

\* consecutive_failures >= CONSECUTIVE_FAIL_LIMIT, at the top of the while body
BreakerTripped(cf) == cf >= CONSECUTIVE_FAIL_LIMIT

\* the budget check done after the fact: > instead of >=
BudgetReachedLate(ca) == ca > CALL_BUDGET

\* calls_attempted >= CALL_BUDGET
BudgetReached(ca) == ca >= CALL_BUDGET

\* line 394 without `and transient`
RetryAnyFailure(attempts, e, ca) ==
    attempts < 2 /\ ca < CALL_BUDGET

\* attempts_for_this_query < 2 and transient and calls_attempted < CALL_BUDGET
RetryAllowed(attempts, e, ca) ==
    attempts < 2 /\ is_transient_error(e) /\ ca < CALL_BUDGET

\* `for q in queries` has no query left
LoopExhausted ==
    /\ pc = "for"
    /\ qi = nqueries
    /\ pc' = "report"
    /\ UNCHANGED << api_key, nqueries, data_json, loop_vars >>

\* the breaker check at the top of the for body: break out of the for loop
BreakerHalt ==
    /\ pc = "for"
    /\ qi < nqueries
    /\ HaltBeforeQuery(consecutive_failures)
    /\ qi' = qi + 1
    /\ pc' = "report"
    /\ UNCHANGED << api_key, nqueries, data_json, results, attempts_for_this_query,
                    last_error, all_items, errors, calls_used, calls_attempted,
                    consecutive_failures, seen_keys, STRUCTURED_OUTPUT_DISABLED,
                    requests_sent, last_sent, paced, pacing_sleeps, backoff_pending, encountered,
                    attempt_log, provider >>

\* the next query starts: results = None, attempts_for_this_query = 0
BeginQuery ==
    /\ pc = "for"
    /\ qi < nqueries
    /\ ~HaltBeforeQuery(consecutive_failures)
    /\ qi' = qi + 1
    /\ results' = None
    /\ attempts_for_this_query' = 0
    /\ last_error' = "None"
    /\ pc' = "while"
    /\ UNCHANGED << api_key, nqueries, data_json, all_items, errors, calls_used,
                    calls_attempted, consecutive_failures, seen_keys,
                    STRUCTURED_OUTPUT_DISABLED, requests_sent, last_sent, paced, pacing_sleeps,
                    backoff_pending, encountered, attempt_log, provider >>

\* the breaker check inside the while loop: break out of the while loop only
InnerBreakerBreak ==
    /\ pc = "while"
    /\ attempts_for_this_query < 2
    /\ BreakerTripped(consecutive_failures)
    /\ pc' = "after"
    /\ UNCHANGED << api_key, nqueries, data_json, loop_vars >>

\* the budget check inside the while loop: break out of the while loop only
BudgetBreak ==
    /\ pc = "while"
    /\ attempts_for_this_query < 2
    /\ ~BreakerTripped(consecutive_failures)
    /\ BudgetReached(calls_attempted)
    /\ pc' = "after"
    /\ UNCHANGED << api_key, nqueries, data_json, loop_vars >>

\* AttemptMade with the pacing sleep of line 378 before the first attempt too
AttemptMadePacedAlways(o) ==
    /\ pc = "while"
    /\ attempts_for_this_query < 2
    /\ ~BreakerTripped(consecutive_failures)
    /\ ~BudgetReached(calls_attempted)
    /\ paced' = TRUE
    /\ pacing_sleeps' = pacing_sleeps + 1
    /\ backoff_pending' = FALSE
    /\ calls_attempted' = calls_attempted + 1
    /\ attempts_for_this_query' = attempts_for_this_query + 1
    /\ STRUCTURED_OUTPUT_DISABLED' = o.disabled
    /\ requests_sent' = requests_sent + Len(o.sent)
    /\ last_sent' = o.sent
    /\ provider' = o.provider
    /\ attempt_log' = Append(attempt_log,
          [q |-> qi, ok |-> o.ok, transient |-> ~o.ok /\ is_transient_error(o.error)])

\* what every attempt does before and while calling fetch_single_query
AttemptMade(o) ==
    /\ pc = "while"
    /\ attempts_for_this_query < 2
    /\ ~BreakerTripped(consecutive_failures)
    /\ ~BudgetReached(calls_attempted)
    /\ paced' = (calls_attempted > 0)
    /\ pacing_sleeps' = pacing_sleeps + (IF calls_attempted > 0 THEN 1 ELSE 0)
    /\ backoff_pending' = FALSE
    /\ calls_attempted' = calls_attempted + 1
    /\ attempts_for_this_query' = attempts_for_this_query + 1
    /\ STRUCTURED_OUTPUT_DISABLED' = o.disabled
    /\ requests_sent' = requests_sent + Len(o.sent)
    /\ last_sent' = o.sent
    /\ provider' = o.provider
    /\ attempt_log' = Append(attempt_log,
          [q |-> qi, ok |-> o.ok, transient |-> ~o.ok /\ is_transient_error(o.error)])

\* AttemptSucceeds without line 385: the successful call is not counted
AttemptSucceedsUncounted ==
    \E o \in fetch_single_query(qi, STRUCTURED_OUTPUT_DISABLED, provider) :
        /\ o.ok
        /\ AttemptMade(o)
        /\ results' = [none |-> FALSE, items |-> o.items]
        /\ calls_used' = calls_used
        /\ consecutive_failures' = 0
        /\ last_error' = "None"
        /\ pc' = "after"
        /\ UNCHANGED << api_key, nqueries, data_json, qi, all_items, errors,
                        seen_keys, encountered >>

\* an attempt whose call returns a list
AttemptSucceeds ==
    \E o \in fetch_single_query(qi, STRUCTURED_OUTPUT_DISABLED, provider) :
        /\ o.ok
        /\ AttemptMade(o)
        /\ results' = [none |-> FALSE, items |-> o.items]
        /\ calls_used' = calls_used + 1
        /\ consecutive_failures' = 0
        /\ last_error' = "None"
        /\ pc' = "after"
        /\ UNCHANGED << api_key, nqueries, data_json, qi, all_items, errors,
                        seen_keys, encountered >>

\* an attempt whose call raises, followed by the backoff sleep and `continue`
AttemptFailsRetry ==
    \E o \in fetch_single_query(qi, STRUCTURED_OUTPUT_DISABLED, provider) :
        /\ ~o.ok
        /\ AttemptMade(o)
        /\ RetryAllowed(attempts_for_this_query + 1, o.error, calls_attempted + 1)
        /\ last_error' = "Exception"
        /\ consecutive_failures' = consecutive_failures + 1
        /\ pc' = "backoff"
        /\ UNCHANGED << api_key, nqueries, data_json, qi, results, all_items, errors,
                        calls_used, seen_keys, encountered >>

\* time.sleep(RETRY_BACKOFF_SECONDS); continue
BackoffSleep ==
    /\ pc = "backoff"
    /\ backoff_pending' = TRUE
    /\ pc' = "while"
    /\ UNCHANGED << api_key, nqueries, data_json, qi, results, attempts_for_this_query,
                    last_error, all_items, errors, calls_used, calls_attempted,
                    consecutive_failures, seen_keys, STRUCTURED_OUTPUT_DISABLED,
                    requests_sent, last_sent, paced, pacing_sleeps, encountered, attempt_log, provider >>

\* AttemptFailsStop counting failed queries: a failed retry adds nothing
AttemptFailsStopPerQuery ==
    \E o \in fetch_single_query(qi, STRUCTURED_OUTPUT_DISABLED, provider) :
        /\ ~o.ok
        /\ AttemptMade(o)
        /\ ~RetryAllowed(attempts_for_this_query + 1, o.error, calls_attempted + 1)
        /\ last_error' = "Exception"
        /\ consecutive_failures' =
              consecutive_failures + (IF attempts_for_this_query = 0 THEN 1 ELSE 0)
        /\ pc' = "after"
        /\ UNCHANGED << api_key, nqueries, data_json, qi, results, all_items, errors,
                        calls_used, seen_keys, encountered >>

\* an attempt whose call raises, followed by `break`
AttemptFailsStop ==
    \E o \in fetch_single_query(qi, STRUCTURED_OUTPUT_DISABLED, provider) :
        /\ ~o.ok
        /\ AttemptMade(o)
        /\ ~RetryAllowed(attempts_for_this_query + 1, o.error, calls_attempted + 1)
        /\ last_error' = "Exception"
        /\ consecutive_failures' = consecutive_failures + 1
        /\ pc' = "after"
        /\ UNCHANGED << api_key, nqueries, data_json, qi, results, all_items, errors,
                        calls_used, seen_keys, encountered >>

\* the ErrorRecord with the attempts allowed instead of the attempts made
ErrorRecordAllowed(tag, e, attempts) ==
    [query_tag |-> tag,
     error_type |-> "other",
     message |-> IF e = "None" THEN "Unknown error" ELSE "str(last_error)",
     attempts |-> 2]

\* the ErrorRecord appended when results is None
ErrorRecord(tag, e, attempts) ==
    [query_tag |-> tag,
     error_type |-> "other",
     message |-> IF e = "None" THEN "Unknown error" ELSE "str(last_error)",
     attempts |-> attempts]

\* if results is None: errors.append(...); continue
RecordError ==
    /\ pc = "after"
    /\ results.none
    /\ errors' = Append(errors, ErrorRecord(qi, last_error, attempts_for_this_query))
    /\ pc' = "for"
    /\ UNCHANGED << api_key, nqueries, data_json, qi, results, attempts_for_this_query,
                    last_error, all_items, calls_used, calls_attempted,
                    consecutive_failures, seen_keys, STRUCTURED_OUTPUT_DISABLED,
                    requests_sent, last_sent, paced, pacing_sleeps, backoff_pending, encountered,
                    attempt_log, provider >>

\* ---------------------------------------------------------------------------
\* Item normaliser
\* ---------------------------------------------------------------------------
\* title = (item.get("title") or "").strip(), for a string or null title
TitleOf(item) == IF item.ttype = "str" THEN Strip(item.title) ELSE <<>>

\* the duplicate test left out
IsDuplicateNever(dk, seen) == FALSE

\* dk in seen_keys
IsDuplicate(dk, seen) == dk \in seen

\* The for loop over `results` from element k on. acc holds all_items,
\* seen_keys, the items met so far, and whether an AttributeError was raised
\* (.strip() of a title that is a number).
RECURSIVE NormalizeFrom(_, _, _, _)
NormalizeFrom(k, rs, tag, acc) ==
    IF k > Len(rs) \/ acc.raised THEN acc
    ELSE LET item == rs[k]
             title == TitleOf(item)
             dk == dedup_key(title)
             met == [query_tag |-> tag, pos |-> k, title |-> title]
         IN  IF ~item.dict THEN NormalizeFrom(k + 1, rs, tag, acc)
             ELSE IF item.ttype = "num" THEN [acc EXCEPT !.raised = TRUE]
             ELSE IF title = <<>> THEN NormalizeFrom(k + 1, rs, tag, acc)
             ELSE IF IsDuplicate(dk, acc.seen_keys)
                  THEN NormalizeFrom(k + 1, rs, tag,
                           [acc EXCEPT !.encountered = Append(@, met)])
             ELSE NormalizeFrom(k + 1, rs, tag,
                      [acc EXCEPT !.encountered = Append(@, met),
                                  !.seen_keys = @ \cup {dk},
                                  !.all_items = Append(@,
                                      [query_tag |-> tag,
                                       title |-> title,
                                       source |-> Strip(item.source)])])

Normalized ==
    NormalizeFrom(1, results.items, qi,
        [all_items |-> all_items, seen_keys |-> seen_keys,
         encountered |-> encountered, raised |-> FALSE])

\* the items of a successful query are normalised and appended
NormalizeItems ==
    /\ pc = "after"
    /\ ~results.none
    /\ ~Normalized.raised
    /\ all_items' = Normalized.all_items
    /\ seen_keys' = Normalized.seen_keys
    /\ encountered' = Normalized.encountered
    /\ pc' = "for"
    /\ UNCHANGED << api_key, nqueries, data_json, qi, results, attempts_for_this_query,
                    last_error, errors, calls_used, calls_attempted,
                    consecutive_failures, STRUCTURED_OUTPUT_DISABLED, requests_sent,
                    last_sent, paced, pacing_sleeps, backoff_pending, attempt_log, provider >>

\* .strip() raises AttributeError on a numeric title: main() dies with a traceback
NormalizeRaises ==
    /\ pc = "after"
    /\ ~results.none
    /\ Normalized.raised
    /\ all_items' = Normalized.all_items
    /\ seen_keys' = Normalized.seen_keys
    /\ encountered' = Normalized.encountered
    /\ pc' = "traceback"
    /\ UNCHANGED << api_key, nqueries, data_json, qi, results, attempts_for_this_query,
                    last_error, errors, calls_used, calls_attempted,
                    consecutive_failures, STRUCTURED_OUTPUT_DISABLED, requests_sent,
                    last_sent, paced, pacing_sleeps, backoff_pending, attempt_log, provider >>

\* ---------------------------------------------------------------------------
\* Report
\* ---------------------------------------------------------------------------
\* the names of REPUTABLE that the model's alphabet spells
REPUTABLE == { Lower(WHO) }

reputable_rank(item) == IF Lower(item.source) \in REPUTABLE THEN 0 ELSE 1

\* the sort key (reputable_rank(x), x["title"].lower()), as code points
SortKey(item) == <<reputable_rank(item)>> \o Codes(Lower(item.title))

\* index x goes behind every index of `order` whose key is not greater
\* (list.sort is stable)
InsertSorted(x, order, keys) ==
    LET ahead == Cardinality({ k \in DOMAIN order : ~LexLess(keys[x], keys[order[k]], 1) })
    IN  SubSeq(order, 1, ahead) \o <<x>> \o SubSeq(order, ahead + 1, Len(order))

RECURSIVE SortOrder(_, _)
SortOrder(n, keys) ==
    IF n = 0 THEN <<>> ELSE InsertSorted(n, SortOrder(n - 1, keys), keys)

\* all_items.sort(key=lambda x: (reputable_rank(x), x.get("title", "").lower()))
SortItems(s) ==
    LET keys == <<>> \o [k \in 1..Len(s) |-> SortKey(s[k])]
        order == SortOrder(Len(s), keys)
    IN  [p \in 1..Len(s) |-> s[order[p]]]

\* the comparison of line 461 taken one too far
PartialOffByOne(errs, used) == errs # <<>> \/ used =< CALL_BUDGET

\* True if errors or calls_used < CALL_BUDGET else False
Partial(errs, used) == errs # <<>> \/ used < CALL_BUDGET

\* all_items.sort(...); out = {...}; json.dump(out, f)
WriteReport ==
    /\ pc = "report"
    /\ all_items' = SortItems(all_items)
    /\ data_json' = Append(data_json,
          [calls_used |-> calls_used,
           calls_attempted |-> calls_attempted,
           calls_budget |-> CALL_BUDGET,
           partial |-> Partial(errors, calls_used),
           items |-> all_items',
           errors |-> errors])
    /\ pc' = "done"
    /\ UNCHANGED << api_key, nqueries, qi, results, attempts_for_this_query,
                    last_error, errors, calls_used, calls_attempted,
                    consecutive_failures, seen_keys, STRUCTURED_OUTPUT_DISABLED,
                    requests_sent, last_sent, paced, pacing_sleeps, backoff_pending, encountered,
                    attempt_log, provider >>

\* ---------------------------------------------------------------------------
\* Specification
\* ---------------------------------------------------------------------------
Next ==
    \/ MissingKeyExit
    \/ QueryCountAbort
    \/ PreflightPass
    \/ LoopExhausted
    \/ BreakerHalt
    \/ BeginQuery
    \/ InnerBreakerBreak
    \/ BudgetBreak
    \/ AttemptSucceeds
    \/ AttemptFailsRetry
    \/ BackoffSleep
    \/ AttemptFailsStop
    \/ RecordError
    \/ NormalizeItems
    \/ NormalizeRaises
    \/ WriteReport

Spec == Init /\ [][Next]_vars

\* the process runs whenever it can: every enabled step is eventually taken
FairSpec == Spec /\ WF_vars(Next)

TypeOK ==
    /\ calls_attempted \in 0..(CALL_BUDGET + 1)
    /\ calls_used \in 0..calls_attempted
    /\ Len(data_json) =< 1

\* ---------------------------------------------------------------------------
\* Properties
\* ---------------------------------------------------------------------------
Report == data_json[1]

\* the attempts made for query q, and whether one of them succeeded
AttemptsOf(q) == { k \in DOMAIN attempt_log : attempt_log[k].q = q }

Succeeded(q) == \E k \in AttemptsOf(q) : attempt_log[k].ok

ErrorsOf(q) == { k \in DOMAIN errors : errors[k].query_tag = q }

\* main() is done with query q
Finished(q) == q < qi \/ (q = qi /\ pc \in {"for", "report", "done"})

\* C1: calls_attempted never exceeds CALL_BUDGET, whatever the provider answers.
C1_AttemptsWithinBudget == calls_attempted =< CALL_BUDGET

\* the 20th attempt failed transiently and the budget forbids its retry
C1_Witness ==
    /\ calls_attempted = CALL_BUDGET
    /\ pc = "after"
    /\ attempts_for_this_query = 1
    /\ last_error = "Exception"
    /\ attempt_log[Len(attempt_log)].transient

\* C2: the HTTP requests issued in a run, the re-issue after a schema
\* rejection included, never exceed CALL_BUDGET (as they would not if every
\* counted attempt sent exactly one request).
C2_RequestsWithinBudget == requests_sent =< CALL_BUDGET

\* C3: once consecutive_failures has reached CONSECUTIVE_FAIL_LIMIT no further
\* attempt is made and no request is sent, and the report then written has
\* partial = true.
C3_BreakerStopsRun ==
    [][ /\ consecutive_failures >= CONSECUTIVE_FAIL_LIMIT =>
             /\ calls_attempted' = calls_attempted
             /\ requests_sent' = requests_sent
             /\ attempt_log' = attempt_log
             /\ consecutive_failures' = consecutive_failures
        /\ (consecutive_failures >= CONSECUTIVE_FAIL_LIMIT /\ data_json' # data_json) =>
             data_json'[1].partial ]_vars

\* the breaker tripped while queries were left, and the report is written
C3_Witness ==
    /\ pc = "done"
    /\ consecutive_failures = CONSECUTIVE_FAIL_LIMIT
    /\ qi < nqueries
    /\ Len(data_json) = 1
    /\ Report.partial

\* C4: once the pre-flight checks have passed, a run ends with exactly one
\* report written, whatever the provider answers.
C4_ReportAlwaysWritten == pc \in {"done", "traceback"} => Len(data_json) = 1

\* C5: when calls_attempted has reached CALL_BUDGET the for loop goes to no
\* further query other than to halt, and if a query was left without an attempt
\* the report has partial = true.
C5_BudgetStopsRun ==
    [][ /\ (calls_attempted >= CALL_BUDGET /\ qi' # qi) => pc' = "report"
        /\ ( /\ calls_attempted >= CALL_BUDGET
             /\ data_json' # data_json
             /\ \E q \in 1..nqueries : AttemptsOf(q) = {} ) =>
             data_json'[1].partial ]_vars

\* C6: without the credential, or with a query count other than CALL_BUDGET,
\* no attempt is made, no request is sent and no report is written.
C6_PreflightAborts ==
    (~api_key \/ nqueries # CALL_BUDGET) =>
        /\ calls_attempted = 0
        /\ requests_sent = 0
        /\ attempt_log = <<>>
        /\ data_json = <<>>
        /\ pc \in {"start", "exit1", "assertion_error"}

\* 19 queries: the assertion failed, nothing was called or written
C6_Witness ==
    /\ pc = "assertion_error"
    /\ api_key
    /\ nqueries = CALL_BUDGET - 1
    /\ requests_sent = 0
    /\ data_json = <<>>

\* C7: every ErrorRecord has attempts 1 or 2.
C7_AttemptsOneOrTwo == \A k \in DOMAIN errors : errors[k].attempts \in {1, 2}

\* C8: a finished query with a successful attempt has no ErrorRecord; a
\* finished query that was attempted without success has exactly one, with the
\* number of attempts made, and no item; no query has two ErrorRecords.
C8_OneRecordPerFailedQuery ==
    \A q \in 1..nqueries :
        /\ Cardinality(ErrorsOf(q)) =< 1
        /\ Succeeded(q) => ErrorsOf(q) = {}
        /\ (Finished(q) /\ AttemptsOf(q) # {} /\ ~Succeeded(q)) =>
             /\ \E k \in DOMAIN errors :
                  /\ ErrorsOf(q) = {k}
                  /\ errors[k].attempts = Cardinality(AttemptsOf(q))
             /\ \A k \in DOMAIN all_items : all_items[k].query_tag # q

\* a run with a retry that succeeded (no record) and a query that failed for
\* good after one attempt (one record)
C8_Witness ==
    /\ pc = "done"
    /\ \E q \in 1..nqueries :
         /\ Cardinality(AttemptsOf(q)) = 2
         /\ Succeeded(q)
         /\ ErrorsOf(q) = {}
    /\ \E q \in 1..nqueries :
         /\ Cardinality(AttemptsOf(q)) = 1
         /\ ~Succeeded(q)
         /\ \E k \in ErrorsOf(q) : errors[k].attempts = 1

\* the dedup_key of every entry of a list of items
KeysOf(s) == <<>> \o [k \in 1..Len(s) |-> dedup_key(s[k].title)]

\* C9: no two entries of all_items have the same dedup_key, and in the final
\* list the entry of a key is the first item met with that key, in query order
\* and then in response order.
C9_FirstSeenWins ==
    [](LET ikeys == KeysOf(all_items)
            ekeys == KeysOf(encountered)
        IN  /\ Cardinality({ ikeys[k] : k \in DOMAIN ikeys }) = Len(all_items)
            /\ pc \in {"done", "traceback"} =>
                 /\ { ekeys[e] : e \in DOMAIN ekeys } = { ikeys[k] : k \in DOMAIN ikeys }
                 /\ \A k \in DOMAIN all_items :
                      \E e \in DOMAIN encountered :
                         /\ encountered[e].query_tag = all_items[k].query_tag
                         /\ encountered[e].title = all_items[k].title
                         /\ ekeys[e] = ikeys[k]
                         /\ \A m \in 1..(e - 1) : ekeys[m] # ekeys[e]
                 /\ pc = "done" =>
                      /\ Len(Report.items) = Len(all_items)
                      /\ { Report.items[k] : k \in DOMAIN Report.items }
                           = { all_items[k] : k \in DOMAIN all_items })

\* two items of different queries had the same key and the run finished
C9_Witness ==
    /\ pc = "done"
    /\ \E a, b \in DOMAIN encountered :
         /\ a < b
         /\ encountered[a].query_tag # encountered[b].query_tag
         /\ encountered[a].title # encountered[b].title
         /\ dedup_key(encountered[a].title) = dedup_key(encountered[b].title)
         /\ \E k \in DOMAIN all_items : all_items[k].title = encountered[a].title
         /\ \A k \in DOMAIN all_items : all_items[k].title # encountered[b].title

\* attempts p .. p+4 are the single attempts of five successive queries, each
\* failed permanently, and consecutive_failures was 0 before
FiveInARow(p) ==
    /\ p + CONSECUTIVE_FAIL_LIMIT - 1 =< Len(attempt_log)
    /\ p = 1 \/ attempt_log[p - 1].ok
    /\ \A j \in 0..(CONSECUTIVE_FAIL_LIMIT - 1) :
         /\ ~attempt_log[p + j].ok
         /\ ~attempt_log[p + j].transient
         /\ attempt_log[p + j].q = attempt_log[p].q + j

\* C10: after five queries in a row have failed permanently nothing more is
\* attempted and no later query gets an ErrorRecord; if they are the only
\* failures of the run, the report has exactly 5 errors, each with attempts 1,
\* calls_attempted is 5 more than before them, and partial = true.
C10_FivePermanentFailures ==
    \A p \in DOMAIN attempt_log :
        FiveInARow(p) =>
            /\ Len(attempt_log) = p + CONSECUTIVE_FAIL_LIMIT - 1
            /\ calls_attempted = p + CONSECUTIVE_FAIL_LIMIT - 1
            /\ \A k \in DOMAIN errors :
                 errors[k].query_tag =< attempt_log[p].q + CONSECUTIVE_FAIL_LIMIT - 1
            /\ (pc = "done" /\ \A m \in 1..(p - 1) : attempt_log[m].ok) =>
                 /\ Len(Report.errors) = CONSECUTIVE_FAIL_LIMIT
                 /\ \A k \in DOMAIN Report.errors : Report.errors[k].attempts = 1
                 /\ Report.calls_attempted = Report.calls_used + CONSECUTIVE_FAIL_LIMIT
                 /\ Report.partial

\* five permanent failures in a row after some successes, with queries left
C10_Witness ==
    /\ pc = "done"
    /\ qi < nqueries
    /\ \E p \in DOMAIN attempt_log : p > 1 /\ FiveInARow(p)
    /\ Len(errors) = CONSECUTIVE_FAIL_LIMIT

\* every query of the run was attempted once and that attempt succeeded
AllFirstAttemptsSucceeded ==
    /\ Len(attempt_log) = CALL_BUDGET
    /\ \A k \in DOMAIN attempt_log : attempt_log[k].ok /\ attempt_log[k].q = k

\* C11: when all 20 queries succeeded on their first attempt, the report has
\* calls_used = calls_attempted = 20, no errors and partial = false; and when
\* the 20 responses brought 40 titled items with 40 different dedup_keys, the
\* report has exactly 40 items.
C11_AllSucceedFirstTime ==
    (pc = "done" /\ AllFirstAttemptsSucceeded) =>
        /\ Report.calls_used = CALL_BUDGET
        /\ Report.calls_attempted = CALL_BUDGET
        /\ Report.errors = <<>>
        /\ Report.partial = FALSE
        /\ LET ekeys == KeysOf(encountered)
           IN  ( /\ Len(encountered) = 2 * CALL_BUDGET
                 /\ Cardinality({ ekeys[e] : e \in DOMAIN ekeys }) = 2 * CALL_BUDGET ) =>
                   Len(Report.items) = 2 * CALL_BUDGET

\* the fault-free run with 40 different titles, report written
C11_Witness ==
    /\ pc = "done"
    /\ AllFirstAttemptsSucceeded
    /\ Len(encountered) = 2 * CALL_BUDGET
    /\ Len(Report.items) = 2 * CALL_BUDGET
    /\ ~Report.partial

\* the step is an attempt: main() called fetch_single_query once
AttemptStep == attempt_log' # attempt_log

\* the attempt of the step, as logged
ThisAttempt == attempt_log'[Len(attempt_log')]

\* C12: an attempt in which the request was re-issued after the 400 for the
\* schema field sets STRUCTURED_OUTPUT_DISABLED, sends the second request
\* without the schema and counts as one attempt; if the re-issue succeeds,
\* calls_used grows by 1, consecutive_failures is 0 and the query gets no
\* ErrorRecord; if the re-issue fails transiently on the first attempt of the
\* query with room in the budget, the retry of the query is still to come.
C12_ReissueInsideAttempt ==
    [][ (AttemptStep /\ Len(last_sent') > 1) =>
          /\ Len(last_sent') = 2
          /\ last_sent'[2] = FALSE
          /\ STRUCTURED_OUTPUT_DISABLED'
          /\ requests_sent' = requests_sent + 2
          /\ calls_attempted' = calls_attempted + 1
          /\ attempts_for_this_query' = attempts_for_this_query + 1
          /\ ThisAttempt.ok =>
               /\ calls_used' = calls_used + 1
               /\ consecutive_failures' = 0
               /\ results' = [none |-> FALSE, items |-> results'.items]
               /\ errors' = errors
               /\ pc' = "after"
          /\ ~ThisAttempt.ok =>
               /\ calls_used' = calls_used
               /\ consecutive_failures' = consecutive_failures + 1
          /\ ( /\ ThisAttempt.transient
               /\ attempts_for_this_query' = 1
               /\ calls_attempted' < CALL_BUDGET ) =>
               pc' = "backoff" ]_vars

\* the schema request was rejected, and the re-issue without it succeeded
C12_Witness ==
    /\ pc = "after"
    /\ last_sent = << TRUE, FALSE >>
    /\ STRUCTURED_OUTPUT_DISABLED
    /\ results.none = FALSE
    /\ consecutive_failures = 0
    /\ attempt_log[Len(attempt_log)].ok

\* C13: STRUCTURED_OUTPUT_DISABLED, once set, stays set; every request of an
\* attempt made while it is set, and every re-issue, goes without the schema;
\* while it is not set, the first request of an attempt carries the schema.
C13_DowngradeSticky ==
    [][ /\ STRUCTURED_OUTPUT_DISABLED => STRUCTURED_OUTPUT_DISABLED'
        /\ AttemptStep =>
             /\ STRUCTURED_OUTPUT_DISABLED =>
                  \A k \in DOMAIN last_sent' : last_sent'[k] = FALSE
             /\ ~STRUCTURED_OUTPUT_DISABLED => last_sent'[1] = TRUE
             /\ \A k \in 2..Len(last_sent') : last_sent'[k] = FALSE ]_vars

\* a query after the one that set the flag sent its request without the schema
C13_Witness ==
    /\ pc = "after"
    /\ STRUCTURED_OUTPUT_DISABLED
    /\ last_sent = << FALSE >>
    /\ qi > 1
    /\ attempts_for_this_query = 1
    /\ requests_sent = calls_attempted + 1

\* C14: no query is attempted more than twice; an attempt is the second of its
\* query only if the attempt before it was the first of that query, failed,
\* was classified transient and left calls_attempted below CALL_BUDGET, so a
\* permanent failure is never followed by an attempt for the same query.
\* HTTP 429, HTTP 5xx, URLError and TimeoutError are classified transient,
\* other 4xx, RuntimeError and JSONDecodeError permanent.
C14_RetryOnlyAfterTransient ==
    /\ \A k \in DOMAIN attempt_log :
         /\ k >= 2 => attempt_log[k].q >= attempt_log[k - 1].q
         /\ k >= 3 => attempt_log[k].q # attempt_log[k - 2].q
         /\ (k >= 2 /\ attempt_log[k].q = attempt_log[k - 1].q) =>
              /\ ~attempt_log[k - 1].ok
              /\ attempt_log[k - 1].transient
              /\ k - 1 < CALL_BUDGET
    /\ attempts_for_this_query =< 2
    /\ \A e \in ProviderErrors :
         /\ (e.cls = "HTTPError" /\ e.code \in {429, 503}) => is_transient_error(e)
         /\ e.cls \in {"URLError", "TimeoutError"} => is_transient_error(e)
         /\ (e.cls = "HTTPError" /\ e.code \in {400, 404}) => ~is_transient_error(e)
         /\ e.cls \in {"RuntimeError", "JSONDecodeError"} => ~is_transient_error(e)

\* a query that failed permanently on its first attempt and is finished, in a
\* run where an earlier query was attempted a second time
C14_Witness ==
    /\ pc = "for"
    /\ Len(attempt_log) >= 3
    /\ attempt_log[Len(attempt_log)].q = qi
    /\ attempt_log[Len(attempt_log) - 1].q # qi
    /\ ~attempt_log[Len(attempt_log)].ok
    /\ ~attempt_log[Len(attempt_log)].transient
    /\ \E k \in 2..Len(attempt_log) : attempt_log[k].q = attempt_log[k - 1].q

\* C15 as stated: a transient failure of a first attempt with room in the
\* budget is followed by the backoff sleep, and the step after a backoff sleep
\* is the second attempt for the same query.
C15_BackoffThenRetry ==
    [][ /\ ( /\ AttemptStep
             /\ ThisAttempt.transient
             /\ attempts_for_this_query' = 1
             /\ calls_attempted' < CALL_BUDGET ) => pc' = "backoff"
        /\ pc = "backoff" => backoff_pending'
        /\ (backoff_pending /\ pc = "while") =>
             /\ AttemptStep
             /\ ThisAttempt.q = qi
             /\ attempts_for_this_query' = 2 ]_vars

\* C15: a transient failure of a first attempt with room in the budget is
\* followed by the backoff sleep; the step after the sleep is the second
\* attempt for the same query when consecutive_failures is below
\* CONSECUTIVE_FAIL_LIMIT, and otherwise it ends the query without a retry.
C15_BackoffThenRetryUnlessTripped ==
    [][ /\ ( /\ AttemptStep
             /\ ThisAttempt.transient
             /\ attempts_for_this_query' = 1
             /\ calls_attempted' < CALL_BUDGET ) => pc' = "backoff"
        /\ pc = "backoff" => backoff_pending'
        /\ ( /\ backoff_pending
             /\ pc = "while"
             /\ consecutive_failures < CONSECUTIVE_FAIL_LIMIT ) =>
             /\ AttemptStep
             /\ ThisAttempt.q = qi
             /\ attempts_for_this_query' = 2
        /\ ( /\ backoff_pending
             /\ pc = "while"
             /\ consecutive_failures >= CONSECUTIVE_FAIL_LIMIT ) =>
             /\ ~AttemptStep
             /\ attempts_for_this_query' = 1
             /\ results' = None
             /\ pc' = "after" ]_vars

\* the backoff was slept after the fifth failure in a row and the query ended
\* without its retry
C15_Witness ==
    /\ pc = "after"
    /\ backoff_pending
    /\ consecutive_failures = CONSECUTIVE_FAIL_LIMIT
    /\ attempts_for_this_query = 1
    /\ attempt_log[Len(attempt_log)].transient
    /\ calls_attempted < CALL_BUDGET

\* the failed attempts made since the latest successful one
FailedSinceSuccess ==
    { k \in DOMAIN attempt_log : \A m \in k..Len(attempt_log) : ~attempt_log[m].ok }

\* C16: consecutive_failures is the number of failed attempts made since the
\* latest successful attempt, or since the start of the run when none has
\* succeeded; first attempts and retries count alike.
C16_ConsecutiveFailuresCount ==
    consecutive_failures = Cardinality(FailedSinceSuccess)

\* after a success, one query failed on its first attempt and on its retry:
\* two failures counted for one query
C16_Witness ==
    /\ pc = "after"
    /\ calls_used > 0
    /\ attempts_for_this_query = 2
    /\ results = None
    /\ consecutive_failures = 2
    /\ Cardinality(AttemptsOf(qi)) = 2

\* C17: the first attempt of the run is made without a pacing sleep and every
\* other attempt, first attempt or retry, right after one: the latest attempt
\* was paced exactly when it was not the first of the run, and the pacing
\* sleeps so far are one fewer than the attempts, none without its attempt.
C17_PacingOrder ==
    /\ attempt_log = <<>> => pacing_sleeps = 0
    /\ attempt_log # <<>> =>
         /\ pacing_sleeps = Len(attempt_log) - 1
         /\ paced = (Len(attempt_log) > 1)

\* a retry made after the backoff sleep and a pacing sleep
C17_Witness ==
    /\ pc = "after"
    /\ attempts_for_this_query = 2
    /\ paced
    /\ pacing_sleeps = calls_attempted - 1
    /\ calls_attempted >= 3

\* C18: the request is re-issued at most once in a run: the requests sent are
\* at most calls_attempted + 1, and an attempt made while
\* STRUCTURED_OUTPUT_DISABLED is set sends exactly one request.
C18_ReissueOncePerRun ==
    [][ /\ requests_sent' =< calls_attempted' + 1
        /\ (STRUCTURED_OUTPUT_DISABLED /\ AttemptStep) => Len(last_sent') = 1 ]_vars

\* C19: a report with partial = false comes only from a run in which all 20
\* queries succeeded on their first attempt, with calls_used = calls_attempted
\* = 20 and no errors; a run with a failed attempt (even one whose retry
\* succeeded), a tripped breaker or a query left without an attempt reports
\* partial = true.
C19_NotPartialOnlyIfClean ==
    pc = "done" =>
        /\ Report.partial = FALSE =>
             /\ Report.calls_used = CALL_BUDGET
             /\ Report.calls_attempted = CALL_BUDGET
             /\ Report.errors = <<>>
             /\ AllFirstAttemptsSucceeded
        /\ ( \/ \E k \in DOMAIN attempt_log : ~attempt_log[k].ok
             \/ consecutive_failures >= CONSECUTIVE_FAIL_LIMIT
             \/ \E q \in 1..nqueries : AttemptsOf(q) = {} ) =>
             Report.partial = TRUE

\* every attempted query succeeded, one of them on its retry, and the report
\* is partial: the budget left the last query without an attempt
C19_Witness ==
    /\ pc = "done"
    /\ Report.partial
    /\ Report.calls_attempted = CALL_BUDGET
    /\ Report.calls_used = CALL_BUDGET - 1
    /\ \E q \in 1..nqueries : Cardinality(AttemptsOf(q)) = 2 /\ Succeeded(q)
    /\ \A q \in 1..(nqueries - 1) : Succeeded(q)

\* the queries with a successful attempt so far
SucceededQueries ==
    { attempt_log[k].q : k \in { m \in DOMAIN attempt_log : attempt_log[m].ok } }

\* C20: calls_used =< calls_attempted; calls_attempted is calls_used plus the
\* number of failed attempts; calls_used is the number of queries that have
\* succeeded; every entry of all_items has the tag of a query that succeeded;
\* and all_items has at most 2 entries per successful call.
C20_CounterAccounting ==
    /\ calls_used =< calls_attempted
    /\ calls_attempted =
         calls_used + Cardinality({ k \in DOMAIN attempt_log : ~attempt_log[k].ok })
    /\ calls_used = Cardinality(SucceededQueries)
    /\ { all_items[k].query_tag : k \in DOMAIN all_items } \subseteq SucceededQueries
    /\ Len(all_items) =< 2 * calls_used

\* a finished run with successes, failed attempts and items
C20_Witness ==
    /\ pc = "done"
    /\ calls_used >= 2
    /\ calls_attempted >= calls_used + 2
    /\ Len(all_items) = 2 * calls_used
    /\ \E q \in 1..nqueries : Cardinality(AttemptsOf(q)) = 2 /\ ~Succeeded(q)

====
